---- MODULE Spec2Model ----
(***************************************************************************)
(* The Svg element of crates/gpui/src/elements/svg.rs: the builder that    *)
(* configures it, its three lifecycle phases (request_layout, prepaint,    *)
(* paint) and the asynchronous SvgAsset loader behind external_path.       *)
(***************************************************************************)
EXTENDS Integers, Sequences, FiniteSets, TLC

(* ------------------------------ bounds --------------------------------- *)

\* intrinsic widths of the sample vector graphics are 1..MaxIntrinsicWidth
MaxIntrinsicWidth == 1
\* intrinsic heights of the sample vector graphics are 1..MaxIntrinsicHeight
MaxIntrinsicHeight == 7
\* absolute style lengths are 100px, 200px, ... MaxAbsSteps * 100px
MaxAbsSteps == 1
\* the count of requesters of an in-flight fetch saturates here
MaxPending == 2

(* ------------------------- f32 arithmetic ------------------------------ *)
(* A positive f32 is <<m, e>>, the value m * 2^e with 2^23 <= m < 2^24;    *)
(* every operation rounds to nearest, ties to even, as IEEE 754 does.      *)

\* significand width of f32
MantBits == 24

RECURSIVE Pow2(_)
Pow2(n) == IF n = 0 THEN 1 ELSE 2 * Pow2(n - 1)

RECURSIVE BitLen(_)
BitLen(n) == IF n = 0 THEN 0 ELSE 1 + BitLen(n \div 2)

RECURSIVE OddPart(_)
OddPart(m) == IF m % 2 = 0 THEN OddPart(m \div 2) ELSE m

RECURSIVE TrailingZeros(_)
TrailingZeros(m) == IF m % 2 = 0 THEN 1 + TrailingZeros(m \div 2) ELSE 0

\* the f32 nearest to m * 2^e (+ a nonzero fraction below m's last bit when sticky)
F32Round(m, e, sticky) ==
    LET len == BitLen(m) IN
    IF len <= MantBits
    THEN <<m * Pow2(MantBits - len), e - (MantBits - len)>>
    ELSE LET k    == len - MantBits
             q    == m \div Pow2(k)
             r    == m % Pow2(k)
             half == Pow2(k - 1)
             up   == r > half \/ (r = half /\ (sticky \/ q % 2 = 1))
             q2   == IF up THEN q + 1 ELSE q
         IN  IF q2 = Pow2(MantBits)
             THEN <<Pow2(MantBits - 1), e + k + 1>>
             ELSE <<q2, e + k>>

\* an integer as f32
F32(n) == F32Round(n, 0, FALSE)

\* a * b in f32 (the operand with the shorter significand is the multiplier)
F32Mul(a, b) ==
    LET sa == OddPart(a[1])
        sb == OddPart(b[1])
    IN  IF sb <= sa
        THEN F32Round(a[1] * sb, a[2] + b[2] + TrailingZeros(b[1]), FALSE)
        ELSE F32Round(b[1] * sa, a[2] + b[2] + TrailingZeros(a[1]), FALSE)

RECURSIVE LongDiv(_, _, _, _)
LongDiv(q, r, d, k) ==
    IF k = 0 THEN <<q, r>>
    ELSE LET r2 == 2 * r IN
         IF r2 >= d
         THEN LongDiv(2 * q + 1, r2 - d, d, k - 1)
         ELSE LongDiv(2 * q, r2, d, k - 1)

\* a / b in f32
F32Div(a, b) ==
    LET k  == IF a[1] >= b[1] THEN MantBits + 1 ELSE MantBits + 2
        qr == LongDiv(a[1] \div b[1], a[1] % b[1], b[1], k)
    IN  F32Round(qr[1], a[2] - b[2] - k, qr[2] # 0)

(* ------------------------------ values --------------------------------- *)

\* Option<T>: None is <<>>, Some(x) is <<x>>
None == <<>>
Some(x) == <<x>>

\* Length::Auto
Auto == <<"auto">>
\* Length::Definite(DefiniteLength::Absolute(px)), px an f32 number of pixels
Absolute(p) == <<"absolute", p>>
\* Length::Definite(DefiniteLength::Fraction(f)), f an f32 share of the parent
Fraction(f) == <<"fraction", f>>
\* px(v).into(): a pixel count as a Length::Definite
DefinitePx(v) == Absolute(v)

\* identifiers of the registered asset source and of external files
PathIds == {"icon.svg"}
ExternalIds == {"/tmp/ext.svg"}

\* Size<f32> of the sample graphics
IntrinsicSizes ==
    {[width |-> F32(w), height |-> F32(h)] :
        w \in 1..MaxIntrinsicWidth, h \in 1..MaxIntrinsicHeight}

\* what the asset source holds for an identifier: nothing (Ok(None)), a load
\* error, bytes usvg rejects, or a graphic of some intrinsic size
AssetContents ==
    {<<"none">>, <<"error">>, <<"invalid">>} \cup {<<"svg", s>> : s \in IntrinsicSizes}

\* style lengths a caller may set on an axis
StyleLengths ==
    {Auto, Fraction(F32Div(F32(1), F32(2)))} \cup {Absolute(F32(100 * i)) : i \in 1..MaxAbsSteps}

Colors == {"red"}

\* Transformation values
Transformations ==
    {[scale |-> <<2, 2>>, translate |-> <<0, 0>>, rotate |-> 0]}

\* Bounds<Pixels> the layout engine may hand to prepaint and paint
BoundsSet ==
    {[x |-> 0, y |-> 0, w |-> 10, h |-> 10], [x |-> 4, y |-> 2, w |-> 20, h |-> 10]}

\* what a file of the external location holds: bytes, or it cannot be read
FileStates == {"bytesA", "bytesB", "unreadable"}

(* ------------------------------- state --------------------------------- *)

VARIABLES
    phase,        \* "build": the Svg value is still with its builder; "element": handed to the framework
    node,         \* the Svg struct and the style of its interactivity
    assetSource,  \* cx.asset_source(): identifier -> contents
    layoutRec,    \* the last request_layout: cached size after it, style handed to the layout engine
    hitboxRec,    \* the last prepaint: bounds given, hitbox region returned
    files,        \* the file system: external location -> FileStates
    assets,       \* the window's asset cache: location -> None | loading | result
    reads,        \* fs::read calls per location
    pending,      \* requests that found the fetch of a location not yet resolved (saturating)
    seen,         \* results use_asset has handed to paints, per location
    lastPaint     \* the last paint: what it observed, drew and logged

vars ==
    <<phase, node, assetSource, layoutRec, hitboxRec, files, assets, reads, pending, seen, lastPaint>>

layoutVars == <<assetSource, layoutRec, hitboxRec>>
paintVars == <<files, assets, reads, pending, seen, lastPaint>>

\* svg(): the element as constructed
svg ==
    [path |-> None, external_path |-> None, transformation |-> None, size |-> None,
     style |-> [color |-> None, width |-> Auto, height |-> Auto]]

\* the element as constructed, before anything is registered under its
\* identifier; what the asset source and the files hold changes later
Init ==
    /\ phase = "build"
    /\ node = svg
    /\ assetSource = [id \in PathIds |-> <<"none">>]
    /\ layoutRec = None
    /\ hitboxRec = None
    /\ files = [id \in ExternalIds |-> "bytesA"]
    /\ assets = [id \in ExternalIds |-> None]
    /\ reads = [id \in ExternalIds |-> 0]
    /\ pending = [id \in ExternalIds |-> 0]
    /\ seen = [id \in ExternalIds |-> {}]
    /\ lastPaint = None

(* ------------------------------ builder -------------------------------- *)

\* Svg::path
path(p) ==
    /\ phase = "build"
    /\ node' = [node EXCEPT !.path = Some(p)]
    /\ UNCHANGED <<phase, layoutVars, paintVars>>

\* Svg::external_path
external_path(p) ==
    /\ phase = "build"
    /\ node' = [node EXCEPT !.external_path = Some(p)]
    /\ UNCHANGED <<phase, layoutVars, paintVars>>

\* Svg::with_transformation
with_transformation(t) ==
    /\ phase = "build"
    /\ node' = [node EXCEPT !.transformation = Some(t)]
    /\ UNCHANGED <<phase, layoutVars, paintVars>>

\* Styled::style, used to set the width and height of the base style
style_size(w, h) ==
    /\ phase = "build"
    /\ node' = [node EXCEPT !.style.width = w, !.style.height = h]
    /\ UNCHANGED <<phase, layoutVars, paintVars>>

\* Styled::style, used to set the text color of the base style
style_text_color(c) ==
    /\ phase = "build"
    /\ node' = [node EXCEPT !.style.color = Some(c)]
    /\ UNCHANGED <<phase, layoutVars, paintVars>>

\* IntoElement::into_element: from here on the framework drives the element
into_element ==
    /\ phase = "build"
    /\ phase' = "element"
    /\ UNCHANGED <<node, layoutVars, paintVars>>

(* -------------------------- request_layout ------------------------------ *)

\* the element with no transformation: svg() never given with_transformation
Untransformed(n) == [n EXCEPT !.transformation = None]

\* size_probe without the `self.size.is_none()` test
size_probe_uncached(n, source) ==
    IF n.path # None
    THEN LET content == source[n.path[1]] IN
         [loaded |-> TRUE,
          size   |-> IF content[1] = "svg" THEN Some(content[2]) ELSE n.size]
    ELSE [loaded |-> FALSE, size |-> n.size]

\* the sizing probe of request_layout: whether the asset source is loaded, and
\* self.size after it
size_probe(n, source) ==
    IF n.size = None /\ n.path # None
    THEN LET content == source[n.path[1]] IN
         [loaded |-> TRUE,
          size   |-> IF content[1] = "svg" THEN Some(content[2]) ELSE n.size]
    ELSE [loaded |-> FALSE, size |-> n.size]

\* auto_width matching any Length::Definite height, not only an absolute one
auto_width_any_definite(size, ar, style) ==
    IF style.width = Auto
    THEN IF style.height # Auto
         THEN DefinitePx(F32Mul(ar, style.height[2]))
         ELSE DefinitePx(size.width)
    ELSE style.width

\* style.size.width after the first `if let Length::Auto`
auto_width(size, ar, style) ==
    IF style.width = Auto
    THEN IF style.height[1] = "absolute"
         THEN DefinitePx(F32Mul(ar, style.height[2]))
         ELSE DefinitePx(size.width)
    ELSE style.width

\* style.size.height after the second `if let Length::Auto`
auto_height(size, ar, style) ==
    IF style.height = Auto
    THEN IF style.width[1] = "absolute"
         THEN DefinitePx(F32Div(style.width[2], ar))
         ELSE DefinitePx(size.height)
    ELSE style.height

\* layout_style with the height matched on the width the style declared, not
\* on the width just written
layout_style_declared_width(n) ==
    IF n.size = None
    THEN [aspect_ratio |-> None, width |-> n.style.width, height |-> n.style.height]
    ELSE LET size   == n.size[1]
             ar     == F32Div(size.width, size.height)
         IN  [aspect_ratio |-> Some(ar),
              width  |-> auto_width(size, ar, n.style),
              height |-> auto_height(size, ar, n.style)]

\* the style request_layout hands to window.request_layout
layout_style(n) ==
    IF n.size = None
    THEN [aspect_ratio |-> None, width |-> n.style.width, height |-> n.style.height]
    ELSE LET size   == n.size[1]
             ar     == F32Div(size.width, size.height)
             width  == auto_width(size, ar, n.style)
             style1 == [n.style EXCEPT !.width = width]
             height == auto_height(size, ar, style1)
         IN  [aspect_ratio |-> Some(ar), width |-> width, height |-> height]

\* Element::request_layout
request_layout ==
    /\ phase = "element"
    /\ LET probe == size_probe(node, assetSource)
           n1    == [node EXCEPT !.size = probe.size]
       IN  /\ node' = n1
           /\ layoutRec' = Some([size |-> n1.size, loaded |-> probe.loaded,
                                 out |-> layout_style(n1)])
    /\ UNCHANGED <<phase, assetSource, hitboxRec, paintVars>>

(* ------------------------------ prepaint ------------------------------- *)

\* hitbox_region with the scale of the transformation applied to the bounds
hitbox_region_transformed(n, bounds) ==
    IF n.transformation = None THEN bounds
    ELSE [bounds EXCEPT !.w = @ * n.transformation[1].scale[1],
                        !.h = @ * n.transformation[1].scale[2]]

\* the region interactivity.prepaint registers for hit-testing
hitbox_region(n, bounds) == bounds

\* Element::prepaint
prepaint(bounds) ==
    /\ phase = "element"
    /\ hitboxRec' = Some([bounds |-> bounds, hitbox |-> hitbox_region(node, bounds)])
    /\ UNCHANGED <<phase, node, assetSource, layoutRec, paintVars>>

\* the registered content behind an identifier changes
asset_source_change(id, content) ==
    /\ phase = "element"
    /\ assetSource[id] # content
    /\ assetSource' = [assetSource EXCEPT ![id] = content]
    /\ UNCHANGED <<phase, node, layoutRec, hitboxRec, paintVars>>

(* ------------------------- the asset cache ----------------------------- *)
(* A cache entry is None (never requested), <<"loading">> (the fetch is    *)
(* in flight) or <<"ready", result>>; a result is <<"ok", bytes>> or       *)
(* <<"err", "io">>.                                                        *)

\* the entry after a request: the first request installs the in-flight fetch
fetch_asset(entry) == IF entry = None THEN <<"loading">> ELSE entry

\* window.use_asset: the result if the fetch has resolved, else None
use_asset(entry) ==
    IF entry # None /\ entry[1] = "ready" THEN Some(entry[2]) ELSE None

\* fs::read(path).map_err(Arc::new), then Arc::from(bytes)
read_file(file) == IF file = "unreadable" THEN <<"err", "io">> ELSE <<"ok", file>>

\* load that reads the location a second time when the first read fails
load_retrying(id) ==
    /\ assets[id] = <<"loading">>
    /\ assets' = [assets EXCEPT ![id] = <<"ready", read_file(files[id])>>]
    /\ reads' = [reads EXCEPT ![id] = IF read_file(files[id])[1] = "err" THEN @ + 2 ELSE @ + 1]
    /\ UNCHANGED <<phase, node, layoutVars, files, pending, seen, lastPaint>>

\* SvgAsset::load, run by the background executor for an in-flight entry
load(id) ==
    /\ assets[id] = <<"loading">>
    /\ assets' = [assets EXCEPT ![id] = <<"ready", read_file(files[id])>>]
    /\ reads' = [reads EXCEPT ![id] = @ + 1]
    /\ UNCHANGED <<phase, node, layoutVars, files, pending, seen, lastPaint>>

\* the file at an external location is rewritten, removed or restored
file_change(id, file) ==
    /\ phase = "element"
    /\ files[id] # file
    /\ files' = [files EXCEPT ![id] = file]
    /\ UNCHANGED <<phase, node, layoutVars, assets, reads, pending, seen, lastPaint>>

(* ------------------------------- paint --------------------------------- *)

\* paint_branch with the external path tested first
paint_branch_external_first(n) ==
    IF n.external_path # None /\ n.style.color # None THEN "external"
    ELSE IF n.path # None /\ n.style.color # None THEN "primary"
    ELSE "none"

\* paint_branch without the zip with style.text.color
paint_branch_any_color(n) ==
    IF n.path # None THEN "primary"
    ELSE IF n.external_path # None THEN "external"
    ELSE "none"

\* which branch of the paint closure runs
paint_branch(n) ==
    IF n.path # None /\ n.style.color # None THEN "primary"
    ELSE IF n.external_path # None /\ n.style.color # None THEN "external"
    ELSE "none"

\* bounds.center()
center(bounds) == <<bounds.x + bounds.w \div 2, bounds.y + bounds.h \div 2>>

\* the matrix of the draw call: into_matrix about the center, or the default
matrix(n, bounds) ==
    IF n.transformation = None THEN <<"unit">>
    ELSE <<"into_matrix", n.transformation[1], center(bounds)>>

\* the arguments of window.paint_svg
paint_svg(n, bounds, id, data) ==
    [bounds |-> bounds, path |-> id, data |-> data,
     transformation |-> matrix(n, bounds), color |-> n.style.color]

\* external_bytes with unwrap_or_default in place of log_err: an error draws empty bytes
external_bytes_or_default(observed) ==
    IF observed = None THEN None
    ELSE IF observed[1][1] = "ok" THEN Some(observed[1][2]) ELSE Some("")

\* external_bytes that gives up on every result
external_bytes_dropped(observed) == None

\* use_asset(..).and_then(|asset| asset.log_err()): the bytes to draw, if any
external_bytes(observed) ==
    IF observed # None /\ observed[1][1] = "ok" THEN Some(observed[1][2]) ELSE None

\* asset_log with .ok() in place of .log_err()
asset_log_silent(observed) == <<>>

\* what asset.log_err() logs for the observed result
asset_log(observed) ==
    IF observed # None /\ observed[1][1] = "err" THEN <<"asset_error">> ELSE <<>>

\* what .log_err() logs for the result of paint_svg
draw_log(result) == IF result = "err" THEN <<"draw_error">> ELSE <<>>

min(a, b) == IF a <= b THEN a ELSE b

\* Element::paint
paint(bounds) ==
    /\ phase = "element"
    /\ LET branch == paint_branch(node) IN
       \/ /\ branch = "primary"
          /\ \E result \in {"ok", "err"} :
               lastPaint' = Some([lookup |-> FALSE, observed |-> None,
                                  draws |-> <<paint_svg(node, bounds, node.path[1], None)>>,
                                  logs |-> draw_log(result)])
          /\ UNCHANGED <<assets, pending, seen>>
       \/ /\ branch = "external"
          /\ LET id       == node.external_path[1]
                 observed == use_asset(fetch_asset(assets[id]))
                 bytes    == external_bytes(observed)
             IN  /\ assets' = [assets EXCEPT ![id] = fetch_asset(@)]
                 /\ pending' = IF observed = None
                               THEN [pending EXCEPT ![id] = min(@ + 1, MaxPending)]
                               ELSE pending
                 /\ seen' = IF observed = None
                            THEN seen
                            ELSE [seen EXCEPT ![id] = @ \cup {observed[1]}]
                 /\ IF bytes = None
                    THEN lastPaint' = Some([lookup |-> TRUE, observed |-> observed,
                                            draws |-> <<>>, logs |-> asset_log(observed)])
                    ELSE \E result \in {"ok", "err"} :
                           lastPaint' = Some([lookup |-> TRUE, observed |-> observed,
                                              draws |-> <<paint_svg(node, bounds, id, bytes)>>,
                                              logs |-> asset_log(observed) \o draw_log(result)])
       \/ /\ branch = "none"
          /\ lastPaint' = Some([lookup |-> FALSE, observed |-> None,
                                draws |-> <<>>, logs |-> <<>>])
          /\ UNCHANGED <<assets, pending, seen>>
    /\ UNCHANGED <<phase, node, layoutVars, files, reads>>

(* --------------------------- specifications ---------------------------- *)

\* the builder calls that configure what is drawn
Build ==
    \/ \E p \in PathIds : path(p)
    \/ \E p \in ExternalIds : external_path(p)
    \/ \E t \in Transformations : with_transformation(t)
    \/ into_element

\* the layout side of the element: sizing and hit-testing
NextLayout ==
    \/ Build
    \/ \E w, h \in StyleLengths : style_size(w, h)
    \/ request_layout
    \/ \E b \in BoundsSet : prepaint(b)
    \/ \E id \in PathIds, c \in AssetContents : asset_source_change(id, c)

SpecLayout == Init /\ [][NextLayout]_vars

\* the paint side of the element: asset resolution and the draw call
NextPaint ==
    \/ Build
    \/ \E c \in Colors : style_text_color(c)
    \/ \E b \in BoundsSet : paint(b)
    \/ \E id \in ExternalIds : load(id)
    \/ \E id \in ExternalIds, f \in FileStates : file_change(id, f)

SpecPaint == Init /\ [][NextPaint]_vars

\* paint passes keep occurring: the window is redrawn frame after frame
SpecPaintLive ==
    /\ SpecPaint
    /\ WF_vars(\E b \in BoundsSet : paint(b))

\* the whole lifecycle of one element over changing content and files
Next ==
    \/ Build
    \/ \E c \in Colors : style_text_color(c)
    \/ request_layout
    \/ \E b \in BoundsSet : prepaint(b)
    \/ \E b \in BoundsSet : paint(b)
    \/ \E id \in ExternalIds : load(id)
    \/ \E id \in PathIds, c \in AssetContents : asset_source_change(id, c)
    \/ \E id \in ExternalIds, f \in FileStates : file_change(id, f)

Spec == Init /\ [][Next]_vars

(* ------------------------------ claims --------------------------------- *)

\* the record of the last paint, layout and prepaint
Painted == lastPaint # None
LastPaint == lastPaint[1]
LaidOut == layoutRec # None
LastLayout == layoutRec[1]

IoError == <<"err", "io">>

\* C1: with path, external_path and a color all set, every paint submits one
\* draw call, for the primary path and with no raw bytes, and leaves the asset
\* cache untouched: no lookup, no entry, no read.
C1_PrimaryPrecedence ==
    (Painted /\ node.path # None /\ node.external_path # None /\ node.style.color # None)
        => /\ Len(LastPaint.draws) = 1
           /\ LastPaint.draws[1].path = node.path[1]
           /\ LastPaint.draws[1].data = None
           /\ ~LastPaint.lookup
           /\ \A id \in ExternalIds : assets[id] = None /\ reads[id] = 0

C1_Witness ==
    /\ Painted /\ node.path # None /\ node.external_path # None /\ node.style.color # None
    /\ Len(LastPaint.draws) = 1

\* C2: with no resolved color a paint submits no draw call, whatever
\* identifiers are set and whatever the asset cache holds.
C2_NoColorNoDraw ==
    (Painted /\ node.style.color = None) => LastPaint.draws = <<>>

C2_Witness ==
    /\ Painted /\ node.style.color = None
    /\ node.path # None /\ node.external_path # None

\* C3: when two or more requests met the fetch of a location in flight, the
\* location is read exactly once and every result handed out is the one
\* cached result.
C3_SingleRead ==
    \A id \in ExternalIds :
        pending[id] >= 2 =>
            /\ reads[id] <= 1
            /\ Cardinality(seen[id]) <= 1
            /\ assets[id] # None
            /\ assets[id] = <<"loading">> => reads[id] = 0 /\ seen[id] = {}
            /\ assets[id][1] = "ready" => reads[id] = 1 /\ seen[id] \subseteq {assets[id][2]}

C3_Witness ==
    \E id \in ExternalIds :
        /\ pending[id] >= 2
        /\ assets[id][1] = "ready"
        /\ seen[id] = {assets[id][2]}
        /\ read_file(files[id]) # assets[id][2]

\* C4: once the fetch of a location has ended in an I/O error, no step reads
\* the location again or replaces the cached error, and a paint that observes
\* the error submits no draw call.
C4_FailureCached ==
    /\ [](Painted /\ LastPaint.observed = Some(IoError) => LastPaint.draws = <<>>)
    /\ [][\A id \in ExternalIds :
            assets[id] = <<"ready", IoError>>
                => reads'[id] = reads[id] /\ assets'[id] = assets[id]]_vars

C4_Witness ==
    /\ Painted /\ LastPaint.observed = Some(IoError) /\ LastPaint.lookup
    /\ \E id \in ExternalIds : assets[id] = <<"ready", IoError>> /\ files[id] # "unreadable"

C6_OneAuto ==
    (LaidOut /\ LastLayout.size # None) =>
        LET size  == LastLayout.size[1]
            ar    == F32Div(size.width, size.height)
            style == node.style
            out   == LastLayout.out
        IN  /\ (style.width = Auto /\ style.height # Auto) =>
                 /\ out.height = style.height
                 /\ out.width = IF style.height[1] = "absolute"
                                THEN DefinitePx(F32Mul(ar, style.height[2]))
                                ELSE DefinitePx(size.width)
            /\ (style.height = Auto /\ style.width # Auto) =>
                 /\ out.width = style.width
                 /\ out.height = IF style.width[1] = "absolute"
                                 THEN DefinitePx(F32Div(style.width[2], ar))
                                 ELSE DefinitePx(size.height)

C6_Witness ==
    /\ LaidOut /\ LastLayout.size # None
    /\ node.style.width = Auto /\ node.style.height[1] = "fraction"
    /\ LastLayout.size[1].width # LastLayout.size[1].height

\* C7: whatever transformation the element carries, the style of its last
\* layout request and the hit-test region of its last prepaint are those of
\* the same element with any other transformation or none, and the region is
\* the bounds prepaint was given.
C7_TransformationPaintOnly ==
    \A t \in {None} \cup {Some(x) : x \in Transformations} :
        LET other == [node EXCEPT !.transformation = t] IN
        /\ LaidOut => LastLayout.out = layout_style([other EXCEPT !.size = LastLayout.size])
        /\ hitboxRec # None =>
             /\ hitboxRec[1].hitbox = hitbox_region(other, hitboxRec[1].bounds)
             /\ hitboxRec[1].hitbox = hitboxRec[1].bounds

C7_Witness ==
    /\ node.transformation # None
    /\ LaidOut /\ LastLayout.size # None
    /\ hitboxRec # None

\* C8 as stated: a paint that observes the cached I/O error logs nothing,
\* the failure having been logged at fetch time.
C8_Original ==
    (Painted /\ LastPaint.observed = Some(IoError)) => LastPaint.logs = <<>>

\* C8 as amended: the failure is logged by paint, not by the fetch: every
\* paint that observes the cached I/O error logs it, once, and a paint that
\* does not observe it logs no asset error.
C8_LoggedPerPaint ==
    Painted =>
        /\ LastPaint.observed = Some(IoError) => LastPaint.logs = <<"asset_error">>
        /\ LastPaint.observed # Some(IoError) =>
             \A i \in 1..Len(LastPaint.logs) : LastPaint.logs[i] # "asset_error"

C8_Witness ==
    /\ Painted /\ LastPaint.observed = Some(IoError)
    /\ LastPaint.logs = <<"asset_error">>

\* C9: once self.size is set, no step changes or clears it, and a layout
\* request no longer loads the asset source.
C9_SizeCachedForLife ==
    [][node.size # None =>
        /\ node'.size = node.size
        /\ layoutRec' # layoutRec => ~layoutRec'[1].loaded]_vars

C9_Witness ==
    /\ node.size # None
    /\ assetSource[node.path[1]] # <<"svg", node.size[1]>>
    /\ LaidOut /\ ~LastLayout.loaded
    /\ hitboxRec # None /\ Painted

\* C10: for an element with only external_path and a color: a paint that finds
\* the fetch unresolved draws nothing, and paint is never held up by the
\* fetch; a paint that finds bytes cached submits one draw call carrying
\* them; once bytes are cached, the next paint observes them, and under
\* continuing paints a draw call carrying them is eventually submitted.
ExternalOnly ==
    /\ phase = "element"
    /\ node.path = None /\ node.external_path # None /\ node.style.color # None

DrawsBytes(id) ==
    /\ Painted
    /\ Len(LastPaint.draws) = 1
    /\ LastPaint.draws[1].path = id
    /\ LastPaint.draws[1].data = Some(assets[id][2][2])

ExtId == node.external_path[1]

CachedBytes ==
    ExternalOnly /\ assets[ExtId] # None /\ assets[ExtId][1] = "ready" /\ assets[ExtId][2][1] = "ok"

C10_ExternalEventuallyDrawn ==
    /\ [](ExternalOnly => ENABLED (\E b \in BoundsSet : paint(b)))
    /\ [](ExternalOnly /\ Painted =>
            /\ LastPaint.lookup
            /\ LastPaint.observed = None => LastPaint.draws = <<>>
            /\ (LastPaint.observed # None /\ LastPaint.observed[1][1] = "ok") =>
                 /\ LastPaint.observed[1] = assets[ExtId][2]
                 /\ DrawsBytes(ExtId))
    /\ [][(CachedBytes /\ lastPaint' # lastPaint)
            => lastPaint'[1].observed = Some(assets[ExtId][2])]_vars
    /\ CachedBytes ~> (ExternalOnly /\ DrawsBytes(ExtId))

C10_Witness ==
    /\ ExternalOnly
    /\ DrawsBytes(node.external_path[1])
    /\ pending[node.external_path[1]] >= 1

====
